---- MODULE Spec2Model ----
(***************************************************************************)
(* Model of the governor command-line client: the two governance write     *)
(* implementations (governor/governance.py GovernanceWriter and            *)
(* governor/score/governance.py GovernanceScore), the confirmation         *)
(* callback, and the setStake / claimIScore commands of                    *)
(* governor/command/system_score_command.py.                               *)
(*                                                                         *)
(* Every handler is one action.  What a handler does, in order, is kept in *)
(* last.events: the transactions it builds, the signing, and the calls it  *)
(* makes on the icon client.  The icon SDK is outside the repository: a    *)
(* client call answers with any value of its return type or raises.        *)
(* Write operations are modelled on objects constructed with an owner      *)
(* wallet, as create_writer and _create_system_score(invoke=True) do.      *)
(***************************************************************************)
EXTENDS Integers, Sequences, FiniteSets, TLC

VARIABLES
    writer,     \* the GovernanceWriter object (fields of __init__ and the listener)
    score,      \* the GovernanceScore object (fields of __init__)
    fs,         \* the regular files that exist on disk
    reader,     \* the GovernanceReader object (fields of __init__ and the listener)
    last        \* what the last handler that ran did and returned

vars == <<writer, score, fs, reader, last>>

-----------------------------------------------------------------------------
(* Bounds *)

MaxStepLimit == 1       \* step limits are 1..MaxStepLimit
MaxRet == 1             \* the client answers with values 1..MaxRet of each type
MaxInt == 1             \* integer arguments are 0..MaxInt
MaxStake == 1           \* stake arguments are -MaxStake..MaxStake

-----------------------------------------------------------------------------
(* Optional values: Python's None and a present value *)

None == <<>>
Some(x) == <<x>>

-----------------------------------------------------------------------------
(* Input domains *)

StepLimits == 1..MaxStepLimit
Ints == 0..MaxInt
Keystores == {"ks1"}
Urls == {"mainnet", "http://localhost:9000"}
ArgNids == {-1, 3}
TxHashes == {"0xaa"}
Reasons == {"bad"}
Addresses == {"hx01"}
Names == {"1.3.0"}
ImportStmts == {"os"}
ScorePaths == {"gov", "nogov"}
StepTypeInputs ==
    {"default", "contractCall", "contractCreate", "contractUpdate",
     "contractDestruct", "contractSet", "get", "set", "replace", "delete",
     "input", "eventlog", "apiCall", "", "Default", "storage"}
ContextTypeInputs == {"invoke", "query", "Invoke", "", "call"}
Lines == {"n", "N", "", "y", "no", "n "}

\* **kwargs of a GovernanceScore method: the keys the class reads
KwargsInputs ==
    [estimate : {None, Some(TRUE), Some(FALSE)},
     step_limit : {None} \cup {Some(n) : n \in StepLimits}]
NoKwargs == [estimate |-> None, step_limit |-> None]

-----------------------------------------------------------------------------
(* The icon SDK, as far as the repository's code uses it *)

GOVERNANCE_ADDRESS == "cx0000000000000000000000000000000000000001"

\* icon.KeyWallet.load: the wallet kept in a keystore file
KeyWallet_load(keystore_path) ==
    [address |-> "hx_" \o keystore_path, private_key |-> "pk_" \o keystore_path]

\* builder.build() of CallTransactionBuilder: step_limit is None unless
\* .step_limit() was called on the builder
CallTransaction(nid, from, to, step_limit, method, params) ==
    [kind |-> "call", nid |-> nid, from |-> from, to |-> to,
     step_limit |-> step_limit,
     data |-> [method |-> method, params |-> params],
     signature |-> None]

\* builder.build() of DeployTransactionBuilder
DeployTransaction(nid, from, to, step_limit, path) ==
    [kind |-> "deploy", nid |-> nid, from |-> from, to |-> to,
     step_limit |-> step_limit,
     data |-> [path |-> path],
     signature |-> None]

\* tx.sign(private_key): the transaction now carries a signature by that key
Sign(tx, private_key) == [tx EXCEPT !.signature = Some(private_key)]

\* Values the client returns: a transaction hash (bytes) or a step count (int)
BytesValues == {[type |-> "bytes", v |-> i] : i \in 1..MaxRet}
IntValues == {[type |-> "int", v |-> i] : i \in 1..MaxRet}
Raised == [ok |-> FALSE, val |-> None]
Returned(v) == [ok |-> TRUE, val |-> Some(v)]

\* What the client does when called: estimate_step answers an int;
\* send_transaction answers bytes or an int; either may raise
ClientEnv ==
    [estimate_step : {Raised} \cup {Returned(v) : v \in IntValues},
     send_transaction : {Raised} \cup {Returned(v) : v \in BytesValues \cup IntValues}]

\* One entry of last.events: what was done, the transaction it was done to,
\* and for a client call the keyword arguments passed and the value answered
Event(ev, tx, kwargs) == [ev |-> ev, tx |-> tx, kwargs |-> kwargs, val |-> None]

\* A call on the client; its failure propagates to the caller
ClientCall(name, tx, kwargs, resp) ==
    [events |-> <<[Event(name, Some(tx), kwargs) EXCEPT !.val = resp.val]>>,
     outcome |-> IF resp.ok THEN "return" ELSE "ClientError",
     ret |-> resp.val]

\* An exception raised by the handler itself before anything else happened
Raise(exc) == [events |-> <<>>, outcome |-> exc, ret |-> None]

\* r, preceded by the events evs
After(evs, r) == [r EXCEPT !.events = evs \o @]

\* os.path.join(path, "package.json")
os_path_join(path, name) == path \o "/" \o name

\* os.path.isfile
os_path_isfile(path) == path \in fs

-----------------------------------------------------------------------------
(* governor/governance.py *)

\* get_predefined_nid (governor/utils.py): negative for a url it does not know
get_predefined_nid(url) == IF url = "mainnet" THEN 1 ELSE -1

\* _get_nid: the ValueError is constructed but not raised
_get_nid(args) ==
    IF args.nid < 0 THEN get_predefined_nid(args.url) ELSE args.nid

\* _confirm_callback that takes any line starting with n or N as a refusal
_confirm_callback_loose(yes, line) ==
    IF ~yes
    THEN IF line \in {"n", "N", "no", "n "} THEN [ret |-> FALSE, reads |-> 1]
                                            ELSE [ret |-> TRUE, reads |-> 1]
    ELSE [ret |-> TRUE, reads |-> 0]

\* _confirm_callback(content, yes): line is what input() would return.
\* Result: the value returned and the number of lines read from the terminal
_confirm_callback(yes, line) ==
    IF ~yes
    THEN IF line = "n" THEN [ret |-> FALSE, reads |-> 1]
                       ELSE [ret |-> TRUE, reads |-> 1]
    ELSE [ret |-> TRUE, reads |-> 0]

\* GovernanceWriter.__init__ and GovernanceListener.__init__
GovernanceWriter(nid, owner, step_limit, estimate) ==
    [nid |-> nid, owner |-> owner, step_limit |-> step_limit,
     estimate |-> estimate, on_send_request |-> None]

\* create_writer
create_writer(nid, keystore_path, step_limit, estimate) ==
    GovernanceWriter(nid, KeyWallet_load(keystore_path), step_limit, estimate)

\* GovernanceListener.set_on_send_request
set_on_send_request(w, func) == [w EXCEPT !.on_send_request = Some(func)]

\* create_writer_by_args
create_writer_by_args(args) ==
    set_on_send_request(
        create_writer(_get_nid(args), args.keystore, args.step_limit, args.estimate),
        [func |-> "_confirm_callback", yes |-> args.yes])

WriterArgs ==
    [url : Urls, nid : ArgNids, step_limit : StepLimits, keystore : Keystores,
     yes : BOOLEAN, estimate : BOOLEAN]

\* GovernanceWriter._create_call_tx
Writer__create_call_tx(w, method, params) ==
    CallTransaction(w.nid, w.owner.address, GOVERNANCE_ADDRESS,
                    Some(w.step_limit), method, params)

\* GovernanceWriter._create_update_tx
Writer__create_update_tx(w, score_path) ==
    DeployTransaction(w.nid, w.owner.address, GOVERNANCE_ADDRESS,
                      Some(w.step_limit), score_path)

\* GovernanceWriter._estimate_step that asks through send_transaction
Writer__estimate_step_via_send(w, tx, env) ==
    ClientCall("send_transaction", tx, NoKwargs, env.send_transaction)

\* GovernanceWriter._estimate_step that asks a second time when the client
\* raises
Writer__estimate_step_retry(w, tx, env) ==
    LET c == ClientCall("estimate_step", tx, NoKwargs, env.estimate_step)
    IN  IF c.outcome = "return" THEN c
        ELSE After(c.events,
                   ClientCall("estimate_step", tx, NoKwargs, env.estimate_step))

\* GovernanceWriter._estimate_step
Writer__estimate_step(w, tx, env) ==
    ClientCall("estimate_step", tx, NoKwargs, env.estimate_step)

\* GovernanceWriter._send_transaction that submits before it signs
Writer__send_transaction_unsigned(w, tx, env) ==
    LET signed == Sign(tx, w.owner.private_key)
        r == ClientCall("send_transaction", tx, NoKwargs, env.send_transaction)
    IN  [r EXCEPT !.events = @ \o <<Event("sign", Some(signed), NoKwargs)>>]

\* GovernanceWriter._send_transaction
Writer__send_transaction(w, tx, env) ==
    LET signed == Sign(tx, w.owner.private_key)
    IN  After(<<Event("sign", Some(signed), NoKwargs)>>,
              ClientCall("send_transaction", signed, NoKwargs, env.send_transaction))

\* GovernanceWriter._run that ignores the estimate flag
Writer__run_always_send(w, tx, env) ==
    Writer__send_transaction(w, tx, env)

\* GovernanceWriter._run
Writer__run(w, tx, env) ==
    IF w.estimate THEN Writer__estimate_step(w, tx, env)
                  ELSE Writer__send_transaction(w, tx, env)

\* GovernanceWriter._call
Writer__call(w, method, params, env) ==
    LET tx == Writer__create_call_tx(w, method, params)
    IN  After(<<Event("build", Some(tx), NoKwargs)>>, Writer__run(w, tx, env))

\* A run of the program is one command: objects are constructed, one handler
\* runs on them, and the process ends (no handler changes an object's fields)
Ready == last.op = "none"

\* The record of the handler that ran
Ran(cls, op, args, estimate, r) ==
    [cls |-> cls, op |-> op, args |-> args, estimate |-> estimate,
     events |-> r.events, outcome |-> r.outcome, ret |-> r.ret]

\* step_types of GovernanceWriter.set_step_cost (a tuple)
Writer_step_types ==
    {"default", "contractCall", "contractCreate", "contractUpdate",
     "contractDestruct", "contractSet", "get", "set", "replace", "delete",
     "input", "eventlog", "apiCall"}

\* context_types that also lets a capitalised name through
Writer_context_types_loose == {"invoke", "query", "Invoke"}

\* context_types of GovernanceWriter.set_max_step_limit
Writer_context_types == {"invoke", "query"}

\* GovernanceWriter.update without the check of package.json
Writer_update_result_unchecked(w, score_path, env) ==
    LET tx == Writer__create_update_tx(w, score_path)
    IN  After(<<Event("build", Some(tx), NoKwargs)>>, Writer__run(w, tx, env))

\* GovernanceWriter.update: the result for one score path
Writer_update_result(w, score_path, env) ==
    LET path == os_path_join(score_path, "package.json")
    IN  IF ~os_path_isfile(path)
        THEN Raise("Exception")
        ELSE LET tx == Writer__create_update_tx(w, score_path)
             IN  After(<<Event("build", Some(tx), NoKwargs)>>, Writer__run(w, tx, env))

\* The call operations of GovernanceWriter whose arguments are not validated: the
\* result of op for the arguments a
Writer_result(w, op, a, env) ==
    CASE op = "accept_score" ->
            Writer__call(w, "acceptScore", [txHash |-> a.tx_hash], env)
      [] op = "reject_score" ->
            Writer__call(w, "rejectScore", [txHash |-> a.tx_hash, reason |-> a.reason], env)
      [] op = "add_auditor" ->
            Writer__call(w, "addAuditor", [address |-> a.address], env)
      [] op = "remove_auditor" ->
            Writer__call(w, "removeAuditor", [address |-> a.address], env)
      [] op = "set_revision" ->
            Writer__call(w, "setRevision", [code |-> a.revision, name |-> a.name], env)
      [] op = "set_step_price" ->
            Writer__call(w, "setStepPrice", [stepPrice |-> a.step_price], env)
      [] op = "add_deployer" ->
            Writer__call(w, "addDeployer", [address |-> a.address], env)
      [] op = "remove_deployer" ->
            Writer__call(w, "removeDeployer", [address |-> a.address], env)
      [] op = "add_to_score_black_list" ->
            Writer__call(w, "addToScoreBlackList", [address |-> a.address], env)
      [] op = "remove_from_score_black_list" ->
            Writer__call(w, "removeFromScoreBlackList", [address |-> a.address], env)
      [] op = "add_import_white_list" ->
            Writer__call(w, "addImportWhiteList", [importStmt |-> a.import_stmt], env)
      [] op = "remove_import_white_list" ->
            Writer__call(w, "removeImportWhiteList", [importStmt |-> a.import_stmt], env)
      [] op = "update_service_config" ->
            Writer__call(w, "updateServiceConfig", [serviceFlag |-> a.service_flag], env)

Writer_update ==
    \E score_path \in ScorePaths, env \in ClientEnv :
        /\ Ready
        /\ last' = Ran("GovernanceWriter", "update", [path |-> score_path], writer.estimate,
                  Writer_update_result(writer, score_path, env))
        /\ UNCHANGED <<writer, score, fs, reader>>

Writer_accept_score ==
    \E tx_hash \in TxHashes, env \in ClientEnv :
        /\ Ready
        /\ last' = Ran("GovernanceWriter", "accept_score", [tx_hash |-> tx_hash], writer.estimate,
                  Writer_result(writer, "accept_score",
                      [tx_hash |-> tx_hash], env))
        /\ UNCHANGED <<writer, score, fs, reader>>

Writer_reject_score ==
    \E tx_hash \in TxHashes, reason \in Reasons, env \in ClientEnv :
        /\ Ready
        /\ last' = Ran("GovernanceWriter", "reject_score",
                  [tx_hash |-> tx_hash, reason |-> reason], writer.estimate,
                  Writer_result(writer, "reject_score",
                      [tx_hash |-> tx_hash, reason |-> reason], env))
        /\ UNCHANGED <<writer, score, fs, reader>>

Writer_add_auditor ==
    \E address \in Addresses, env \in ClientEnv :
        /\ Ready
        /\ last' = Ran("GovernanceWriter", "add_auditor", [address |-> address], writer.estimate,
                  Writer_result(writer, "add_auditor",
                      [address |-> address], env))
        /\ UNCHANGED <<writer, score, fs, reader>>

Writer_remove_auditor ==
    \E address \in Addresses, env \in ClientEnv :
        /\ Ready
        /\ last' = Ran("GovernanceWriter", "remove_auditor", [address |-> address], writer.estimate,
                  Writer_result(writer, "remove_auditor",
                      [address |-> address], env))
        /\ UNCHANGED <<writer, score, fs, reader>>

Writer_set_revision ==
    \E revision \in Ints, name \in Names, env \in ClientEnv :
        /\ Ready
        /\ last' = Ran("GovernanceWriter", "set_revision",
                  [revision |-> revision, name |-> name], writer.estimate,
                  Writer_result(writer, "set_revision",
                      [revision |-> revision, name |-> name], env))
        /\ UNCHANGED <<writer, score, fs, reader>>

Writer_set_step_price ==
    \E step_price \in Ints, env \in ClientEnv :
        /\ Ready
        /\ last' = Ran("GovernanceWriter", "set_step_price", [step_price |-> step_price],
                  writer.estimate,
                  Writer_result(writer, "set_step_price",
                      [step_price |-> step_price], env))
        /\ UNCHANGED <<writer, score, fs, reader>>

\* GovernanceWriter.set_step_cost: the result for one pair of arguments
Writer_set_step_cost_result(w, step_type, cost, env) ==
    IF step_type \notin Writer_step_types
    THEN Raise("ValueError")
    ELSE Writer__call(w, "setStepCost", [stepType |-> step_type, cost |-> cost], env)

Writer_set_step_cost ==
    \E step_type \in StepTypeInputs, cost \in Ints, env \in ClientEnv :
        /\ Ready
        /\ last' = Ran("GovernanceWriter", "set_step_cost",
                  [step_type |-> step_type, cost |-> cost], writer.estimate,
                  Writer_set_step_cost_result(writer, step_type, cost, env))
        /\ UNCHANGED <<writer, score, fs, reader>>

\* GovernanceWriter.set_max_step_limit: the result for one pair of arguments
Writer_set_max_step_limit_result(w, context_type, value, env) ==
    IF context_type \notin Writer_context_types
    THEN Raise("ValueError")
    ELSE Writer__call(w, "setMaxStepLimit",
                      [contextType |-> context_type, value |-> value], env)

Writer_set_max_step_limit ==
    \E context_type \in ContextTypeInputs, value \in Ints, env \in ClientEnv :
        /\ Ready
        /\ last' = Ran("GovernanceWriter", "set_max_step_limit",
                  [context_type |-> context_type, value |-> value], writer.estimate,
                  Writer_set_max_step_limit_result(writer, context_type, value, env))
        /\ UNCHANGED <<writer, score, fs, reader>>

Writer_add_deployer ==
    \E address \in Addresses, env \in ClientEnv :
        /\ Ready
        /\ last' = Ran("GovernanceWriter", "add_deployer", [address |-> address], writer.estimate,
                  Writer_result(writer, "add_deployer",
                      [address |-> address], env))
        /\ UNCHANGED <<writer, score, fs, reader>>

Writer_remove_deployer ==
    \E address \in Addresses, env \in ClientEnv :
        /\ Ready
        /\ last' = Ran("GovernanceWriter", "remove_deployer", [address |-> address], writer.estimate,
                  Writer_result(writer, "remove_deployer",
                      [address |-> address], env))
        /\ UNCHANGED <<writer, score, fs, reader>>

Writer_add_to_score_black_list ==
    \E address \in Addresses, env \in ClientEnv :
        /\ Ready
        /\ last' = Ran("GovernanceWriter", "add_to_score_black_list", [address |-> address],
                  writer.estimate,
                  Writer_result(writer, "add_to_score_black_list",
                      [address |-> address], env))
        /\ UNCHANGED <<writer, score, fs, reader>>

Writer_remove_from_score_black_list ==
    \E address \in Addresses, env \in ClientEnv :
        /\ Ready
        /\ last' = Ran("GovernanceWriter", "remove_from_score_black_list", [address |-> address],
                  writer.estimate,
                  Writer_result(writer, "remove_from_score_black_list",
                      [address |-> address], env))
        /\ UNCHANGED <<writer, score, fs, reader>>

Writer_add_import_white_list ==
    \E import_stmt \in ImportStmts, env \in ClientEnv :
        /\ Ready
        /\ last' = Ran("GovernanceWriter", "add_import_white_list", [import_stmt |-> import_stmt],
                  writer.estimate,
                  Writer_result(writer, "add_import_white_list",
                      [import_stmt |-> import_stmt], env))
        /\ UNCHANGED <<writer, score, fs, reader>>

Writer_remove_import_white_list ==
    \E import_stmt \in ImportStmts, env \in ClientEnv :
        /\ Ready
        /\ last' = Ran("GovernanceWriter", "remove_import_white_list",
                  [import_stmt |-> import_stmt], writer.estimate,
                  Writer_result(writer, "remove_import_white_list",
                      [import_stmt |-> import_stmt], env))
        /\ UNCHANGED <<writer, score, fs, reader>>

Writer_update_service_config ==
    \E service_flag \in Ints, env \in ClientEnv :
        /\ Ready
        /\ last' = Ran("GovernanceWriter", "update_service_config",
                  [service_flag |-> service_flag], writer.estimate,
                  Writer_result(writer, "update_service_config",
                      [service_flag |-> service_flag], env))
        /\ UNCHANGED <<writer, score, fs, reader>>

-----------------------------------------------------------------------------
(* governor/score/governance.py *)

\* icon.data.GOVERNANCE_SCORE_ADDRESS
GOVERNANCE_SCORE_ADDRESS == "cx0000000000000000000000000000000000000001"

ScoreNids == {3}

\* What the client does when GovernanceScore calls it: the class calls
\* send_transaction only
ScoreEnv == {env \in ClientEnv : env.estimate_step = Raised}

\* GovernanceScore.__init__, constructed with an owner wallet
GovernanceScore(owner, nid, step_limit, estimate) ==
    [owner |-> owner, nid |-> nid, step_limit |-> step_limit,
     estimate |-> estimate, score_address |-> GOVERNANCE_SCORE_ADDRESS]

\* kwargs.get("estimate", self._estimate)
Score_estimate(s, kwargs) ==
    IF kwargs.estimate # None THEN kwargs.estimate[1] ELSE s.estimate

\* kwargs.get("step_limit", self._step_limit)
Score_step_limit(s, kwargs) ==
    IF kwargs.step_limit # None THEN kwargs.step_limit[1] ELSE s.step_limit

\* GovernanceScore._create_call_tx: the events of building (and signing) the
\* transaction; the transaction returned is the one of the last event
Score__create_call_tx(s, method, params, kwargs) ==
    IF Score_estimate(s, kwargs)
    THEN <<Event("build",
                 Some(CallTransaction(s.nid, s.owner.address, s.score_address,
                                      None, method, params)),
                 NoKwargs)>>
    ELSE LET tx == CallTransaction(s.nid, s.owner.address, s.score_address,
                                   Some(Score_step_limit(s, kwargs)), method, params)
         IN  <<Event("build", Some(tx), NoKwargs),
               Event("sign", Some(Sign(tx, s.owner.private_key)), NoKwargs)>>

\* The body shared by the call methods of GovernanceScore:
\*     tx = self._create_call_tx(method, call_params, **kwargs)
\*     return self._client.send_transaction(tx, **kwargs)
Score__call(s, method, params, kwargs, env) ==
    LET evs == Score__create_call_tx(s, method, params, kwargs)
        tx == evs[Len(evs)].tx[1]
    IN  After(evs, ClientCall("send_transaction", tx, kwargs, env.send_transaction))

\* The call operations of GovernanceScore whose arguments are not validated: the
\* result of op for the arguments a
Score_result(s, op, a, env) ==
    CASE op = "accept_score" ->
            Score__call(s, "acceptScore", [txHash |-> a.tx_hash], a.kwargs, env)
      [] op = "reject_score" ->
            Score__call(s, "rejectScore", [txHash |-> a.tx_hash, reason |-> a.reason], a.kwargs, env)
      [] op = "add_auditor" ->
            Score__call(s, "addAuditor", [address |-> a.address], a.kwargs, env)
      [] op = "remove_auditor" ->
            Score__call(s, "removeAuditor", [address |-> a.address], a.kwargs, env)
      [] op = "set_revision" ->
            Score__call(s, "setRevision", [code |-> a.revision, name |-> a.name], a.kwargs, env)
      [] op = "set_step_price" ->
            Score__call(s, "setStepPrice", [stepPrice |-> a.step_price], a.kwargs, env)
      [] op = "add_deployer" ->
            Score__call(s, "addDeployer", [address |-> a.address], a.kwargs, env)
      [] op = "remove_deployer" ->
            Score__call(s, "removeDeployer", [address |-> a.address], a.kwargs, env)
      [] op = "add_to_score_black_list" ->
            Score__call(s, "addToScoreBlackList", [address |-> a.address], a.kwargs, env)
      [] op = "remove_from_score_black_list" ->
            Score__call(s, "removeFromScoreBlackList", [address |-> a.address], a.kwargs, env)
      [] op = "add_import_white_list" ->
            Score__call(s, "addImportWhiteList", [importStmt |-> a.import_stmt], a.kwargs, env)
      [] op = "remove_import_white_list" ->
            Score__call(s, "removeImportWhiteList", [importStmt |-> a.import_stmt], a.kwargs, env)
      [] op = "update_service_config" ->
            Score__call(s, "updateServiceConfig", [serviceFlag |-> a.service_flag], a.kwargs, env)

\* GovernanceScore.deploy: the result for one path
Score_deploy_result(s, path0, kwargs, env) ==
    LET path == os_path_join(path0, "package.json")
    IN  IF ~os_path_isfile(path)
        THEN Raise("Exception")
        ELSE IF Score_estimate(s, kwargs)
        THEN LET tx == DeployTransaction(s.nid, s.owner.address, s.score_address,
                                         None, path)
             IN  After(<<Event("build", Some(tx), NoKwargs)>>,
                       ClientCall("send_transaction", tx, kwargs, env.send_transaction))
        ELSE LET tx == DeployTransaction(s.nid, s.owner.address, s.score_address,
                                         Some(Score_step_limit(s, kwargs)), path)
                 signed == Sign(tx, s.owner.private_key)
             IN  After(<<Event("build", Some(tx), NoKwargs),
                         Event("sign", Some(signed), NoKwargs)>>,
                       ClientCall("send_transaction", signed, kwargs,
                                  env.send_transaction))

\* step_types with one name too many
Score_step_types_extra ==
    {"default", "contractCall", "contractCreate", "contractUpdate",
     "contractDestruct", "contractSet", "get", "set", "replace", "delete",
     "input", "eventlog", "apiCall", "storage"}

\* step_types of GovernanceScore.set_step_cost (a set)
Score_step_types ==
    {"default", "contractCall", "contractCreate", "contractUpdate",
     "contractDestruct", "contractSet", "get", "set", "replace", "delete",
     "input", "eventlog", "apiCall"}

\* context_types of GovernanceScore.set_max_step_limit
Score_context_types == {"invoke", "query"}

Score_deploy ==
    \E path \in ScorePaths, kwargs \in KwargsInputs, env \in ScoreEnv :
        /\ Ready
        /\ last' = Ran("GovernanceScore", "deploy", [path |-> path, kwargs |-> kwargs],
                  Score_estimate(score, kwargs),
                  Score_deploy_result(score, path, kwargs, env))
        /\ UNCHANGED <<writer, score, fs, reader>>

Score_accept_score ==
    \E tx_hash \in TxHashes, kwargs \in KwargsInputs, env \in ScoreEnv :
        /\ Ready
        /\ last' = Ran("GovernanceScore", "accept_score",
                  [tx_hash |-> tx_hash, kwargs |-> kwargs], Score_estimate(score, kwargs),
                  Score_result(score, "accept_score",
                      [tx_hash |-> tx_hash, kwargs |-> kwargs], env))
        /\ UNCHANGED <<writer, score, fs, reader>>

Score_reject_score ==
    \E tx_hash \in TxHashes, reason \in Reasons, kwargs \in KwargsInputs, env \in ScoreEnv :
        /\ Ready
        /\ last' = Ran("GovernanceScore", "reject_score",
                  [tx_hash |-> tx_hash, reason |-> reason, kwargs |-> kwargs],
                  Score_estimate(score, kwargs),
                  Score_result(score, "reject_score",
                      [tx_hash |-> tx_hash, reason |-> reason, kwargs |-> kwargs], env))
        /\ UNCHANGED <<writer, score, fs, reader>>

Score_add_auditor ==
    \E address \in Addresses, kwargs \in KwargsInputs, env \in ScoreEnv :
        /\ Ready
        /\ last' = Ran("GovernanceScore", "add_auditor",
                  [address |-> address, kwargs |-> kwargs], Score_estimate(score, kwargs),
                  Score_result(score, "add_auditor",
                      [address |-> address, kwargs |-> kwargs], env))
        /\ UNCHANGED <<writer, score, fs, reader>>

Score_remove_auditor ==
    \E address \in Addresses, kwargs \in KwargsInputs, env \in ScoreEnv :
        /\ Ready
        /\ last' = Ran("GovernanceScore", "remove_auditor",
                  [address |-> address, kwargs |-> kwargs], Score_estimate(score, kwargs),
                  Score_result(score, "remove_auditor",
                      [address |-> address, kwargs |-> kwargs], env))
        /\ UNCHANGED <<writer, score, fs, reader>>

Score_set_revision ==
    \E revision \in Ints, name \in Names, kwargs \in KwargsInputs, env \in ScoreEnv :
        /\ Ready
        /\ last' = Ran("GovernanceScore", "set_revision",
                  [revision |-> revision, name |-> name, kwargs |-> kwargs],
                  Score_estimate(score, kwargs),
                  Score_result(score, "set_revision",
                      [revision |-> revision, name |-> name, kwargs |-> kwargs], env))
        /\ UNCHANGED <<writer, score, fs, reader>>

Score_set_step_price ==
    \E step_price \in Ints, kwargs \in KwargsInputs, env \in ScoreEnv :
        /\ Ready
        /\ last' = Ran("GovernanceScore", "set_step_price",
                  [step_price |-> step_price, kwargs |-> kwargs],
                  Score_estimate(score, kwargs),
                  Score_result(score, "set_step_price",
                      [step_price |-> step_price, kwargs |-> kwargs], env))
        /\ UNCHANGED <<writer, score, fs, reader>>

\* GovernanceScore.set_step_cost: the result for one pair of arguments
Score_set_step_cost_result(s, step_type, cost, kwargs, env) ==
    IF step_type \notin Score_step_types
    THEN Raise("ValueError")
    ELSE Score__call(s, "setStepCost", [stepType |-> step_type, cost |-> cost],
                     kwargs, env)

Score_set_step_cost ==
    \E step_type \in StepTypeInputs, cost \in Ints, kwargs \in KwargsInputs,
       env \in ScoreEnv :
        /\ Ready
        /\ last' = Ran("GovernanceScore", "set_step_cost",
                  [step_type |-> step_type, cost |-> cost, kwargs |-> kwargs],
                  Score_estimate(score, kwargs),
                  Score_set_step_cost_result(score, step_type, cost, kwargs, env))
        /\ UNCHANGED <<writer, score, fs, reader>>

\* GovernanceScore.set_max_step_limit: the result for one pair of arguments
Score_set_max_step_limit_result(s, context_type, value, kwargs, env) ==
    IF context_type \notin Score_context_types
    THEN Raise("ValueError")
    ELSE Score__call(s, "setMaxStepLimit",
                     [contextType |-> context_type, value |-> value], kwargs, env)

Score_set_max_step_limit ==
    \E context_type \in ContextTypeInputs, value \in Ints, kwargs \in KwargsInputs,
       env \in ScoreEnv :
        /\ Ready
        /\ last' = Ran("GovernanceScore", "set_max_step_limit",
                  [context_type |-> context_type, value |-> value, kwargs |-> kwargs],
                  Score_estimate(score, kwargs),
                  Score_set_max_step_limit_result(score, context_type, value, kwargs, env))
        /\ UNCHANGED <<writer, score, fs, reader>>

Score_add_deployer ==
    \E address \in Addresses, kwargs \in KwargsInputs, env \in ScoreEnv :
        /\ Ready
        /\ last' = Ran("GovernanceScore", "add_deployer",
                  [address |-> address, kwargs |-> kwargs], Score_estimate(score, kwargs),
                  Score_result(score, "add_deployer",
                      [address |-> address, kwargs |-> kwargs], env))
        /\ UNCHANGED <<writer, score, fs, reader>>

Score_remove_deployer ==
    \E address \in Addresses, kwargs \in KwargsInputs, env \in ScoreEnv :
        /\ Ready
        /\ last' = Ran("GovernanceScore", "remove_deployer",
                  [address |-> address, kwargs |-> kwargs], Score_estimate(score, kwargs),
                  Score_result(score, "remove_deployer",
                      [address |-> address, kwargs |-> kwargs], env))
        /\ UNCHANGED <<writer, score, fs, reader>>

Score_add_to_score_black_list ==
    \E address \in Addresses, kwargs \in KwargsInputs, env \in ScoreEnv :
        /\ Ready
        /\ last' = Ran("GovernanceScore", "add_to_score_black_list",
                  [address |-> address, kwargs |-> kwargs], Score_estimate(score, kwargs),
                  Score_result(score, "add_to_score_black_list",
                      [address |-> address, kwargs |-> kwargs], env))
        /\ UNCHANGED <<writer, score, fs, reader>>

Score_remove_from_score_black_list ==
    \E address \in Addresses, kwargs \in KwargsInputs, env \in ScoreEnv :
        /\ Ready
        /\ last' = Ran("GovernanceScore", "remove_from_score_black_list",
                  [address |-> address, kwargs |-> kwargs], Score_estimate(score, kwargs),
                  Score_result(score, "remove_from_score_black_list",
                      [address |-> address, kwargs |-> kwargs], env))
        /\ UNCHANGED <<writer, score, fs, reader>>

Score_add_import_white_list ==
    \E import_stmt \in ImportStmts, kwargs \in KwargsInputs, env \in ScoreEnv :
        /\ Ready
        /\ last' = Ran("GovernanceScore", "add_import_white_list",
                  [import_stmt |-> import_stmt, kwargs |-> kwargs],
                  Score_estimate(score, kwargs),
                  Score_result(score, "add_import_white_list",
                      [import_stmt |-> import_stmt, kwargs |-> kwargs], env))
        /\ UNCHANGED <<writer, score, fs, reader>>

Score_remove_import_white_list ==
    \E import_stmt \in ImportStmts, kwargs \in KwargsInputs, env \in ScoreEnv :
        /\ Ready
        /\ last' = Ran("GovernanceScore", "remove_import_white_list",
                  [import_stmt |-> import_stmt, kwargs |-> kwargs],
                  Score_estimate(score, kwargs),
                  Score_result(score, "remove_import_white_list",
                      [import_stmt |-> import_stmt, kwargs |-> kwargs], env))
        /\ UNCHANGED <<writer, score, fs, reader>>

Score_update_service_config ==
    \E service_flag \in Ints, kwargs \in KwargsInputs, env \in ScoreEnv :
        /\ Ready
        /\ last' = Ran("GovernanceScore", "update_service_config",
                  [service_flag |-> service_flag, kwargs |-> kwargs],
                  Score_estimate(score, kwargs),
                  Score_result(score, "update_service_config",
                      [service_flag |-> service_flag, kwargs |-> kwargs], env))
        /\ UNCHANGED <<writer, score, fs, reader>>

-----------------------------------------------------------------------------
(* governor/governance.py: the confirmation callback, called on its own *)

Call__confirm_callback ==
    \E yes \in BOOLEAN, line \in Lines :
        LET r == _confirm_callback(yes, line)
        IN  /\ Ready
            /\ last' = Ran("governance", "_confirm_callback", [yes |-> yes, line |-> line],
                      FALSE,
                      [events |-> IF r.reads = 1 THEN <<Event("input", None, NoKwargs)>>
                                                ELSE <<>>,
                       outcome |-> "return",
                       ret |-> Some([type |-> "bool", v |-> r.ret])])
            /\ UNCHANGED <<writer, score, fs, reader>>

-----------------------------------------------------------------------------
(* governor/command/system_score_command.py *)

\* The attributes the parent parsers declare (governor/command/command.py)
common_parent_parser == {"url", "nid"}
invoke_parent_parser == {"keystore", "password", "step_limit", "estimate", "yes"}

\* resolve_nid (governor/utils.py)
resolve_nid(nid, url) == IF nid < 0 THEN get_predefined_nid(url) ELSE nid

\* resolve_wallet (governor/utils.py): the wallet of args.keystore
resolve_wallet(args) == KeyWallet_load(args.keystore)

\* SystemScore.__init__ (governor/score/system.py)
SystemScore(owner, nid, step_limit, estimate) ==
    [owner |-> owner, nid |-> nid, step_limit |-> step_limit, estimate |-> estimate]

\* _create_system_score that builds the score for invoke whatever the flag
_create_system_score_for_invoke(args, invoke) ==
    IF {"step_limit", "estimate", "keystore"} \subseteq DOMAIN args
    THEN [ok |-> TRUE,
          score |-> Some(SystemScore(Some(resolve_wallet(args)),
                                     resolve_nid(args.nid, args.url),
                                     args.step_limit, args.estimate))]
    ELSE [ok |-> FALSE, score |-> None]

\* _create_system_score: reading an attribute args does not have raises
\* AttributeError
_create_system_score(args, invoke) ==
    IF invoke
    THEN IF {"step_limit", "estimate", "keystore"} \subseteq DOMAIN args
         THEN [ok |-> TRUE,
               score |-> Some(SystemScore(Some(resolve_wallet(args)),
                                          resolve_nid(args.nid, args.url),
                                          args.step_limit, args.estimate))]
         ELSE [ok |-> FALSE, score |-> None]
    ELSE [ok |-> TRUE, score |-> Some(SystemScore(None, 0, 0, FALSE))]

\* A method of SystemScore (governor/score/system.py) is entered; what it
\* returns is what the command returns
SystemScore_method(name, env) ==
    [events |-> <<Event(name, None, NoKwargs)>>,
     outcome |-> IF env.send_transaction.ok THEN "return" ELSE "ClientError",
     ret |-> env.send_transaction.val]

\* A hook: a callable, with the keyword argument functools.partial bound to it
Hook(func, yes) == [func |-> func, yes |-> yes]

\* self._hooks of the command classes
Command_hooks ==
    [request |-> <<Hook("print_request", None)>>, response |-> "print_response"]

\* Namespaces the setStake parser produces (parents=[common_parent_parser]),
\* and namespaces that also carry the invoke attributes
SetStakeArgs ==
    [url : {"mainnet"}, nid : ArgNids, stake : (0 - MaxStake)..MaxStake]
    \cup
    [url : {"mainnet"}, nid : ArgNids, stake : (0 - MaxStake)..MaxStake,
     keystore : {"ks1"}, password : {"pw"}, step_limit : {1},
     estimate : BOOLEAN, yes : BOOLEAN]

\* Namespaces the claimIScore parser produces
\* (parents=[common_parent_parser, invoke_parent_parser])
ClaimIScoreArgs ==
    [url : {"mainnet"}, nid : ArgNids, keystore : {"ks1"}, password : {"pw"},
     step_limit : {1}, estimate : BOOLEAN, yes : BOOLEAN]

\* SetStakeCommand._run
SetStakeCommand__run_result(args, env) ==
    LET c == _create_system_score(args, TRUE)
    IN  IF ~c.ok THEN Raise("AttributeError")
        ELSE SystemScore_method("set_stake", env)

SetStakeCommand__run ==
    \E args \in SetStakeArgs, env \in ClientEnv :
        /\ Ready
        /\ last' = Ran("SetStakeCommand", "_run", [args |-> args, hooks |-> Command_hooks],
                  IF "estimate" \in DOMAIN args THEN args.estimate ELSE FALSE,
                  SetStakeCommand__run_result(args, env))
        /\ UNCHANGED <<writer, score, fs, reader>>

\* The hooks ClaimIScoreCommand._run builds
ClaimIScore_hooks(yes) ==
    [request |-> <<Hook("confirm_transaction", Some(yes)), Hook("print_request", None)>>,
     response |-> "print_response"]

\* ClaimIScoreCommand._run
ClaimIScoreCommand__run_result(args, env) ==
    LET c == _create_system_score(args, TRUE)
    IN  IF ~c.ok THEN Raise("AttributeError")
        ELSE SystemScore_method("claim_iscore", env)

ClaimIScoreCommand__run ==
    \E args \in ClaimIScoreArgs, env \in ClientEnv :
        /\ Ready
        /\ last' = Ran("ClaimIScoreCommand", "_run",
                  [args |-> args, hooks |-> ClaimIScore_hooks(args.yes)],
                  args.estimate,
                  ClaimIScoreCommand__run_result(args, env))
        /\ UNCHANGED <<writer, score, fs, reader>>

-----------------------------------------------------------------------------
(* Response texts and their decoding: int(ret, base=0) *)

MaxLen == 3             \* response texts have at most MaxLen characters

\* The characters response texts are made of
Chars == {"0", "1", "a", "x"}

\* Texts, as sequences of characters
Texts == UNION {[1..n -> Chars] : n \in 0..MaxLen}

\* The digits of Python's integer literals, in the order of their values
Digits ==
    <<"0", "1", "2", "3", "4", "5", "6", "7", "8", "9", "a", "b", "c", "d", "e", "f">>

DigitValue(c) == (CHOOSE i \in 1..16 : Digits[i] = c) - 1

IsDigit(c, base) == \E i \in 1..base : Digits[i] = c

RECURSIVE ToInt(_, _)
ToInt(digits, base) ==
    IF digits = <<>> THEN 0
    ELSE ToInt(SubSeq(digits, 1, Len(digits) - 1), base) * base
         + DigitValue(digits[Len(digits)])

\* int(text, base=0): the text is read as a Python integer literal, so the
\* prefix 0x selects base 16 and a text without prefix is read in base 10
\* (where a leading zero is allowed only if every digit is zero).  ok is
\* FALSE where int raises ValueError
int_base0(text) ==
    IF Len(text) >= 2 /\ text[1] = "0" /\ text[2] = "x"
    THEN IF Len(text) >= 3 /\ \A i \in 3..Len(text) : IsDigit(text[i], 16)
         THEN [ok |-> TRUE, v |-> ToInt(SubSeq(text, 3, Len(text)), 16)]
         ELSE [ok |-> FALSE, v |-> 0]
    ELSE IF /\ text # <<>>
            /\ \A i \in 1..Len(text) : IsDigit(text[i], 10)
            /\ (Len(text) > 1 /\ text[1] = "0") => \A i \in 1..Len(text) : text[i] = "0"
         THEN [ok |-> TRUE, v |-> ToInt(text, 10)]
         ELSE [ok |-> FALSE, v |-> 0]

\* return int(ret, base=0), applied to the result r of the call
Decode_int(r) ==
    IF r.outcome # "return" THEN r
    ELSE LET d == int_base0(r.ret[1].v)
         IN  IF d.ok THEN [r EXCEPT !.ret = Some([type |-> "int", v |-> d.v])]
                     ELSE [r EXCEPT !.outcome = "ValueError", !.ret = None]

\* return bool(int(ret, base=0)), applied to the result r of the call
Decode_bool(r) ==
    IF r.outcome # "return" THEN r
    ELSE LET d == int_base0(r.ret[1].v)
         IN  IF d.ok THEN [r EXCEPT !.ret = Some([type |-> "bool", v |-> d.v # 0])]
                     ELSE [r EXCEPT !.outcome = "ValueError", !.ret = None]

\* What client.call does: it answers a text or raises
CallResponses == {Raised} \cup {Returned([type |-> "str", v |-> t]) : t \in Texts}

\* The answers to the queries whose result is passed on undecoded
PlainResponses ==
    {Raised, Returned([type |-> "str", v |-> <<"0", "x", "1">>]),
     Returned([type |-> "str", v |-> <<"0", "x", "0">>])}

-----------------------------------------------------------------------------
(* governor/governance.py: GovernanceReader *)

\* governor.constants.EOA_ADDRESS
EOA_ADDRESS == "hx0000000000000000000000000000000000000000"

QueryContextTypes == {"invoke", "Invoke"}

\* builder.build() of icon.CallBuilder: the payload of a read-only call
Call(from, to, method, params) ==
    [kind |-> "query", from |-> from, to |-> to,
     data |-> [method |-> method, params |-> params]]

\* GovernanceReader.__init__ and GovernanceListener.__init__
GovernanceReader(nid, address) ==
    [nid |-> nid, from |-> address, on_send_request |-> None]

\* create_reader
create_reader(url, nid) == GovernanceReader(nid, EOA_ADDRESS)

\* create_reader_by_args
create_reader_by_args(args) ==
    set_on_send_request(create_reader(args.url, _get_nid(args)),
                        [func |-> "_print_request", title |-> "Request"])

ReaderArgs == [url : Urls, nid : ArgNids]

\* create_reader_by_args, run as the handler: it returns the reader it built
Call_create_reader_by_args ==
    \E args \in ReaderArgs :
        /\ Ready
        /\ last' = Ran("governance", "create_reader_by_args", args, FALSE,
                       [events |-> <<>>, outcome |-> "return",
                        ret |-> Some([type |-> "GovernanceReader",
                                      v |-> create_reader_by_args(args)])])
        /\ UNCHANGED <<writer, score, fs, reader>>

\* GovernanceReader._call that calls the client before the callback
Reader__call_late_callback(r, method, params, resp) ==
    LET payload == Call(Some(r.from), GOVERNANCE_ADDRESS, method, params)
        c == ClientCall("call", payload, NoKwargs, resp)
    IN  After(<<Event("build", Some(payload), NoKwargs)>>,
              [c EXCEPT !.events = @ \o <<Event("on_send_request", Some(payload), NoKwargs)>>])

\* GovernanceReader._call: calling on_send_request when it is None raises
\* TypeError
Reader__call(r, method, params, resp) ==
    LET payload == Call(Some(r.from), GOVERNANCE_ADDRESS, method, params)
    IN  IF r.on_send_request = None
        THEN [events |-> <<Event("build", Some(payload), NoKwargs)>>,
              outcome |-> "TypeError", ret |-> None]
        ELSE After(<<Event("build", Some(payload), NoKwargs),
                     Event("on_send_request", Some(payload), NoKwargs)>>,
                   ClientCall("call", payload, NoKwargs, resp))

\* What client.get_transaction_result does
TxResultResponses == {Raised, Returned([type |-> "TransactionResult", v |-> 1])}

\* self._client.get_transaction_result(tx_hash)
GetTxResult(tx_hash, resp) ==
    ClientCall("get_transaction_result", [kind |-> "tx_hash", hash |-> tx_hash],
               NoKwargs, resp)

Reader_get_version ==
    \E resp \in PlainResponses :
        /\ Ready
        /\ last' = Ran("GovernanceReader", "get_version", <<>>, FALSE,
                       Reader__call(reader, "getVersion", None, resp))
        /\ UNCHANGED <<writer, score, fs, reader>>

Reader_get_revision ==
    \E resp \in PlainResponses :
        /\ Ready
        /\ last' = Ran("GovernanceReader", "get_revision", <<>>, FALSE,
                       Reader__call(reader, "getRevision", None, resp))
        /\ UNCHANGED <<writer, score, fs, reader>>

Reader_get_service_config ==
    \E resp \in PlainResponses :
        /\ Ready
        /\ last' = Ran("GovernanceReader", "get_service_config", <<>>, FALSE,
                       Reader__call(reader, "getServiceConfig", None, resp))
        /\ UNCHANGED <<writer, score, fs, reader>>

Reader_get_score_status ==
    \E address \in Addresses, resp \in PlainResponses :
        /\ Ready
        /\ last' = Ran("GovernanceReader", "get_score_status", [address |-> address], FALSE,
                       Reader__call(reader, "getScoreStatus", [address |-> address], resp))
        /\ UNCHANGED <<writer, score, fs, reader>>

Reader_get_step_costs ==
    \E resp \in PlainResponses :
        /\ Ready
        /\ last' = Ran("GovernanceReader", "get_step_costs", <<>>, FALSE,
                       Reader__call(reader, "getStepCosts", None, resp))
        /\ UNCHANGED <<writer, score, fs, reader>>

Reader_get_step_price ==
    \E resp \in CallResponses :
        /\ Ready
        /\ last' = Ran("GovernanceReader", "get_step_price", <<>>, FALSE,
                       Decode_int(Reader__call(reader, "getStepPrice", None, resp)))
        /\ UNCHANGED <<writer, score, fs, reader>>

Reader_get_max_step_limit ==
    \E context_type \in QueryContextTypes, resp \in CallResponses :
        /\ Ready
        /\ last' = Ran("GovernanceReader", "get_max_step_limit", [context_type |-> context_type], FALSE,
                       Decode_int(Reader__call(reader, "getMaxStepLimit", [contextType |-> context_type], resp)))
        /\ UNCHANGED <<writer, score, fs, reader>>

Reader_is_deployer ==
    \E address \in Addresses, resp \in CallResponses :
        /\ Ready
        /\ last' = Ran("GovernanceReader", "is_deployer", [address |-> address], FALSE,
                       Decode_bool(Reader__call(reader, "isDeployer", [address |-> address], resp)))
        /\ UNCHANGED <<writer, score, fs, reader>>

Reader_is_in_score_black_list ==
    \E address \in Addresses, resp \in CallResponses :
        /\ Ready
        /\ last' = Ran("GovernanceReader", "is_in_score_black_list", [address |-> address], FALSE,
                       Decode_bool(Reader__call(reader, "isInScoreBlackList", [address |-> address], resp)))
        /\ UNCHANGED <<writer, score, fs, reader>>

Reader_is_in_import_white_list ==
    \E import_stmt \in ImportStmts, resp \in CallResponses :
        /\ Ready
        /\ last' = Ran("GovernanceReader", "is_in_import_white_list", [import_stmt |-> import_stmt], FALSE,
                       Decode_bool(Reader__call(reader, "isInImportWhiteList", [importStmt |-> import_stmt], resp)))
        /\ UNCHANGED <<writer, score, fs, reader>>

\* GovernanceReader.check_if_audit_enabled: the text answered stands for
\* service_config["AUDIT"]
Reader_check_if_audit_enabled_result(r, resp) ==
    LET c == Reader__call(r, "getServiceConfig", None, resp)
    IN  IF c.outcome # "return" THEN c
        ELSE [c EXCEPT !.ret = Some([type |-> "bool",
                                     v |-> c.ret[1].v = <<"0", "x", "1">>])]

Reader_check_if_audit_enabled ==
    \E resp \in PlainResponses :
        /\ Ready
        /\ last' = Ran("GovernanceReader", "check_if_audit_enabled", <<>>, FALSE,
                       Reader_check_if_audit_enabled_result(reader, resp))
        /\ UNCHANGED <<writer, score, fs, reader>>

Reader_get_tx_result ==
    \E tx_hash \in TxHashes, resp \in TxResultResponses :
        /\ Ready
        /\ last' = Ran("GovernanceReader", "get_tx_result", [tx_hash |-> tx_hash], FALSE,
                       GetTxResult(tx_hash, resp))
        /\ UNCHANGED <<writer, score, fs, reader>>

Writer_get_tx_result ==
    \E tx_hash \in TxHashes, resp \in TxResultResponses :
        /\ Ready
        /\ last' = Ran("GovernanceWriter", "get_tx_result", [tx_hash |-> tx_hash],
                       writer.estimate, GetTxResult(tx_hash, resp))
        /\ UNCHANGED <<writer, score, fs, reader>>

-----------------------------------------------------------------------------
(* governor/score/governance.py: the queries of GovernanceScore *)

\* GovernanceScore._create_query_call
Score__create_query_call(s, method, params) ==
    Call(None, s.score_address, method, params)

\* The body shared by the queries of GovernanceScore:
\*     params = self._create_query_call(method, call_params)
\*     self._client.call(params, **kwargs)
Score__query(s, method, params, resp) ==
    LET payload == Score__create_query_call(s, method, params)
    IN  After(<<Event("build", Some(payload), NoKwargs)>>,
              ClientCall("call", payload, NoKwargs, resp))

Score_get_version ==
    \E resp \in PlainResponses :
        /\ Ready
        /\ last' = Ran("GovernanceScore", "get_version", <<>>, FALSE,
                       Score__query(score, "getVersion", None, resp))
        /\ UNCHANGED <<writer, score, fs, reader>>

Score_get_revision ==
    \E resp \in PlainResponses :
        /\ Ready
        /\ last' = Ran("GovernanceScore", "get_revision", <<>>, FALSE,
                       Score__query(score, "getRevision", None, resp))
        /\ UNCHANGED <<writer, score, fs, reader>>

Score_get_service_config ==
    \E resp \in PlainResponses :
        /\ Ready
        /\ last' = Ran("GovernanceScore", "get_service_config", <<>>, FALSE,
                       Score__query(score, "getServiceConfig", None, resp))
        /\ UNCHANGED <<writer, score, fs, reader>>

Score_get_score_status ==
    \E address \in Addresses, resp \in PlainResponses :
        /\ Ready
        /\ last' = Ran("GovernanceScore", "get_score_status", [address |-> address], FALSE,
                       Score__query(score, "getScoreStatus", [address |-> address], resp))
        /\ UNCHANGED <<writer, score, fs, reader>>

Score_get_step_costs ==
    \E resp \in PlainResponses :
        /\ Ready
        /\ last' = Ran("GovernanceScore", "get_step_costs", <<>>, FALSE,
                       Score__query(score, "getStepCosts", None, resp))
        /\ UNCHANGED <<writer, score, fs, reader>>

Score_get_step_price ==
    \E resp \in CallResponses :
        /\ Ready
        /\ last' = Ran("GovernanceScore", "get_step_price", <<>>, FALSE,
                       Decode_int(Score__query(score, "getStepPrice", None, resp)))
        /\ UNCHANGED <<writer, score, fs, reader>>

Score_get_max_step_limit ==
    \E context_type \in QueryContextTypes, resp \in CallResponses :
        /\ Ready
        /\ last' = Ran("GovernanceScore", "get_max_step_limit", [context_type |-> context_type], FALSE,
                       Decode_int(Score__query(score, "getMaxStepLimit", [contextType |-> context_type], resp)))
        /\ UNCHANGED <<writer, score, fs, reader>>

Score_is_in_score_black_list ==
    \E address \in Addresses, resp \in CallResponses :
        /\ Ready
        /\ last' = Ran("GovernanceScore", "is_in_score_black_list", [address |-> address], FALSE,
                       Decode_bool(Score__query(score, "isInScoreBlackList", [address |-> address], resp)))
        /\ UNCHANGED <<writer, score, fs, reader>>

Score_is_in_import_white_list ==
    \E import_stmt \in ImportStmts, resp \in CallResponses :
        /\ Ready
        /\ last' = Ran("GovernanceScore", "is_in_import_white_list", [import_stmt |-> import_stmt], FALSE,
                       Decode_bool(Score__query(score, "isInImportWhiteList", [importStmt |-> import_stmt], resp)))
        /\ UNCHANGED <<writer, score, fs, reader>>

-----------------------------------------------------------------------------
(* governor/command/system_score_command.py: the command classes *)

\* The command classes the module defines
CommandClasses ==
    {"StakeCommand", "SetStakeCommand", "PRepCommand", "PRepsCommand",
     "MainPRepsCommand", "SubPRepsCommand", "PRepStatsCommand",
     "DelegationCommand", "IScoreCommand", "ClaimIScoreCommand"}

\* __all__
Exported == CommandClasses \ {"PRepStatsCommand"}

\* name= of super().__init__ in each class
Command_name(cls) ==
    CASE cls = "StakeCommand" -> "stake"
      [] cls = "SetStakeCommand" -> "setStake"
      [] cls = "PRepCommand" -> "prep"
      [] cls = "PRepsCommand" -> "preps"
      [] cls = "MainPRepsCommand" -> "mainpreps"
      [] cls = "SubPRepsCommand" -> "subpreps"
      [] cls = "PRepStatsCommand" -> "preps"
      [] cls = "DelegationCommand" -> "delegation"
      [] cls = "IScoreCommand" -> "iscore"
      [] cls = "ClaimIScoreCommand" -> "claimIScore"

\* readonly= of super().__init__ in each class
Command_readonly(cls) == cls \notin {"SetStakeCommand", "ClaimIScoreCommand"}

\* parents= of sub_parser.add_parser in init of each class
Command_parents(cls) ==
    IF cls = "ClaimIScoreCommand"
    THEN common_parent_parser \cup invoke_parent_parser
    ELSE common_parent_parser

\* The arguments init of each class adds with parser.add_argument
Command_arguments(cls) ==
    CASE cls \in {"StakeCommand", "PRepCommand", "DelegationCommand", "IScoreCommand"}
            -> {"address", "keystore"}
      [] cls = "SetStakeCommand" -> {"stake"}
      [] cls = "PRepsCommand" -> {"start", "end"}
      [] OTHER -> {}

\* init: the attributes of the namespace the parser of the class produces
Command_init(cls) == Command_parents(cls) \cup Command_arguments(cls)

\* __init__ of a command class
Command___init__ ==
    \E cls \in CommandClasses :
        /\ Ready
        /\ last' = Ran(cls, "__init__",
                       [name |-> Command_name(cls), readonly |-> Command_readonly(cls)],
                       FALSE, [events |-> <<>>, outcome |-> "return", ret |-> None])
        /\ UNCHANGED <<writer, score, fs, reader>>

\* Namespaces of the read commands that take an address
AddressArgs ==
    [url : {"mainnet"}, nid : ArgNids,
     address : {None, Some("hx01")}, keystore : {None, Some("ks1")}]

\* Namespaces of preps
PRepsArgs == [url : {"mainnet"}, nid : ArgNids, start : {0}, end : {0, MaxInt}]

\* Namespaces of the read commands without arguments
PlainArgs == [url : {"mainnet"}, nid : ArgNids]

\* get_address_from_args (governor/utils.py): the address argument, else the
\* address of the keystore's wallet, else an error
get_address_from_args(args) ==
    IF args.address # None THEN [ok |-> TRUE, address |-> args.address]
    ELSE IF args.keystore # None
    THEN [ok |-> TRUE, address |-> Some(KeyWallet_load(args.keystore[1]).address)]
    ELSE [ok |-> FALSE, address |-> None]

\* A query method of SystemScore (governor/score/system.py) is entered and
\* answers or raises
SystemScore_query(name, resp) ==
    [events |-> <<[Event(name, None, NoKwargs) EXCEPT !.val = resp.val]>>,
     outcome |-> IF resp.ok THEN "return" ELSE "ClientError",
     ret |-> resp.val]

\* The rest of _run of a read command once the address is known:
\*     score = _create_system_score(args, invoke=False)
\*     result = score.<getter>(..., hooks=self._hooks)
\*     (decode and print the result)
\*     return 0
\* decodes: the method decodes the result with str_to_object_by_type;
\* decode_ok: the decoding does not raise
ReadCommand__run(args, getter, decodes, resp, decode_ok) ==
    LET c == _create_system_score(args, FALSE)
    IN  IF ~c.ok
        THEN [events |-> <<>>, outcome |-> "AttributeError", ret |-> None,
              score |-> None]
        ELSE LET q == SystemScore_query(getter, resp)
                 r == IF q.outcome # "return" THEN q
                      ELSE IF decodes /\ ~decode_ok
                      THEN [q EXCEPT !.outcome = "DecodeError", !.ret = None]
                      ELSE [q EXCEPT !.ret = Some([type |-> "int", v |-> 0])]
             IN  [events |-> r.events, outcome |-> r.outcome, ret |-> r.ret,
                  score |-> c.score]

\* _run of a read command that starts with get_address_from_args(args)
AddressCommand__run(args, getter, resp, decode_ok) ==
    IF ~get_address_from_args(args).ok
    THEN [events |-> <<>>, outcome |-> "ValueError", ret |-> None, score |-> None]
    ELSE ReadCommand__run(args, getter, TRUE, resp, decode_ok)

\* What a read command is recorded with
ReadArgs(args, run, decode_ok) ==
    [args |-> args, hooks |-> Command_hooks, score |-> run.score,
     decode_ok |-> decode_ok]

\* StakeCommand._run
StakeCommand__run ==
    \E args \in AddressArgs, resp \in PlainResponses, decode_ok \in BOOLEAN :
        LET run == AddressCommand__run(args, "get_stake", resp, decode_ok)
        IN  /\ Ready
            /\ last' = Ran("StakeCommand", "_run", ReadArgs(args, run, decode_ok), FALSE, run)
            /\ UNCHANGED <<writer, score, fs, reader>>

\* PRepCommand._run
PRepCommand__run ==
    \E args \in AddressArgs, resp \in PlainResponses, decode_ok \in BOOLEAN :
        LET run == AddressCommand__run(args, "get_prep", resp, decode_ok)
        IN  /\ Ready
            /\ last' = Ran("PRepCommand", "_run", ReadArgs(args, run, decode_ok), FALSE, run)
            /\ UNCHANGED <<writer, score, fs, reader>>

\* PRepsCommand._run
PRepsCommand__run ==
    \E args \in PRepsArgs, resp \in PlainResponses, decode_ok \in BOOLEAN :
        LET run == ReadCommand__run(args, "get_preps", TRUE, resp, decode_ok)
        IN  /\ Ready
            /\ last' = Ran("PRepsCommand", "_run", ReadArgs(args, run, decode_ok), FALSE, run)
            /\ UNCHANGED <<writer, score, fs, reader>>

\* MainPRepsCommand._run
MainPRepsCommand__run ==
    \E args \in PlainArgs, resp \in PlainResponses, decode_ok \in BOOLEAN :
        LET run == ReadCommand__run(args, "get_main_preps", FALSE, resp, decode_ok)
        IN  /\ Ready
            /\ last' = Ran("MainPRepsCommand", "_run", ReadArgs(args, run, decode_ok), FALSE, run)
            /\ UNCHANGED <<writer, score, fs, reader>>

\* SubPRepsCommand._run
SubPRepsCommand__run ==
    \E args \in PlainArgs, resp \in PlainResponses, decode_ok \in BOOLEAN :
        LET run == ReadCommand__run(args, "get_sub_preps", FALSE, resp, decode_ok)
        IN  /\ Ready
            /\ last' = Ran("SubPRepsCommand", "_run", ReadArgs(args, run, decode_ok), FALSE, run)
            /\ UNCHANGED <<writer, score, fs, reader>>

\* PRepStatsCommand._run
PRepStatsCommand__run ==
    \E args \in PlainArgs, resp \in PlainResponses, decode_ok \in BOOLEAN :
        LET run == ReadCommand__run(args, "get_prep_stats", TRUE, resp, decode_ok)
        IN  /\ Ready
            /\ last' = Ran("PRepStatsCommand", "_run", ReadArgs(args, run, decode_ok), FALSE, run)
            /\ UNCHANGED <<writer, score, fs, reader>>

\* DelegationCommand._run
DelegationCommand__run ==
    \E args \in AddressArgs, resp \in PlainResponses, decode_ok \in BOOLEAN :
        LET run == AddressCommand__run(args, "get_delegation", resp, decode_ok)
        IN  /\ Ready
            /\ last' = Ran("DelegationCommand", "_run", ReadArgs(args, run, decode_ok), FALSE, run)
            /\ UNCHANGED <<writer, score, fs, reader>>

\* IScoreCommand._run
IScoreCommand__run ==
    \E args \in AddressArgs, resp \in PlainResponses, decode_ok \in BOOLEAN :
        LET run == AddressCommand__run(args, "query_iscore", resp, decode_ok)
        IN  /\ Ready
            /\ last' = Ran("IScoreCommand", "_run", ReadArgs(args, run, decode_ok), FALSE, run)
            /\ UNCHANGED <<writer, score, fs, reader>>

-----------------------------------------------------------------------------
(* The state machine *)

\* The files there are: the score directory gov holds a package.json, the
\* directory nogov does not
Files == {os_path_join("gov", "package.json")}

\* One run constructs the objects its command needs; the command's object
\* takes every configuration while the others stay as first constructed, and
\* so do the files there are
Init ==
    LET Writers == {create_writer_by_args(a) : a \in WriterArgs}
        Scores == {GovernanceScore(KeyWallet_load(k), n, sl, e) :
                     k \in Keystores, n \in ScoreNids, sl \in StepLimits, e \in BOOLEAN}
        Readers == {create_reader("mainnet", 1),
                    create_reader_by_args([url |-> "mainnet", nid |-> -1])}
        writer0 == create_writer_by_args(
                       [url |-> "mainnet", nid |-> -1, step_limit |-> MaxStepLimit,
                        keystore |-> "ks1", yes |-> FALSE, estimate |-> FALSE])
        score0 == GovernanceScore(KeyWallet_load("ks1"), 3, MaxStepLimit, FALSE)
        reader0 == create_reader("mainnet", 1)
    IN  /\ \/ writer \in Writers /\ score = score0 /\ reader = reader0 /\ fs = Files
           \/ writer = writer0 /\ score \in Scores /\ reader = reader0 /\ fs = Files
           \/ writer = writer0 /\ score = score0 /\ reader \in Readers /\ fs = Files
           \/ writer = writer0 /\ score = score0 /\ reader = reader0
              /\ fs \in SUBSET Files
        /\ last = [cls |-> "none", op |-> "none", args |-> <<>>, estimate |-> FALSE,
                   events |-> <<>>, outcome |-> "none", ret |-> None]

Next ==
    \/ Writer_update
    \/ Writer_accept_score
    \/ Writer_reject_score
    \/ Writer_add_auditor
    \/ Writer_remove_auditor
    \/ Writer_set_revision
    \/ Writer_set_step_price
    \/ Writer_set_step_cost
    \/ Writer_set_max_step_limit
    \/ Writer_add_deployer
    \/ Writer_remove_deployer
    \/ Writer_add_to_score_black_list
    \/ Writer_remove_from_score_black_list
    \/ Writer_add_import_white_list
    \/ Writer_remove_import_white_list
    \/ Writer_update_service_config
    \/ Score_deploy
    \/ Score_accept_score
    \/ Score_reject_score
    \/ Score_add_auditor
    \/ Score_remove_auditor
    \/ Score_set_revision
    \/ Score_set_step_price
    \/ Score_set_step_cost
    \/ Score_set_max_step_limit
    \/ Score_add_deployer
    \/ Score_remove_deployer
    \/ Score_add_to_score_black_list
    \/ Score_remove_from_score_black_list
    \/ Score_add_import_white_list
    \/ Score_remove_import_white_list
    \/ Score_update_service_config
    \/ Reader_get_version
    \/ Reader_get_revision
    \/ Reader_get_service_config
    \/ Reader_get_score_status
    \/ Reader_get_step_costs
    \/ Reader_get_step_price
    \/ Reader_get_max_step_limit
    \/ Reader_is_deployer
    \/ Reader_is_in_score_black_list
    \/ Reader_is_in_import_white_list
    \/ Reader_check_if_audit_enabled
    \/ Reader_get_tx_result
    \/ Writer_get_tx_result
    \/ Score_get_version
    \/ Score_get_revision
    \/ Score_get_service_config
    \/ Score_get_score_status
    \/ Score_get_step_costs
    \/ Score_get_step_price
    \/ Score_get_max_step_limit
    \/ Score_is_in_score_black_list
    \/ Score_is_in_import_white_list
    \/ Call_create_reader_by_args
    \/ Command___init__
    \/ StakeCommand__run
    \/ PRepCommand__run
    \/ PRepsCommand__run
    \/ MainPRepsCommand__run
    \/ SubPRepsCommand__run
    \/ PRepStatsCommand__run
    \/ DelegationCommand__run
    \/ IScoreCommand__run
    \/ Call__confirm_callback
    \/ SetStakeCommand__run
    \/ ClaimIScoreCommand__run

Spec == Init /\ [][Next]_vars

-----------------------------------------------------------------------------
(* Vocabulary of the properties *)

\* The handler that ran is a write operation of one of the two classes
QueryOps ==
    {"get_version", "get_revision", "get_service_config", "get_score_status",
     "check_if_audit_enabled", "get_step_costs", "get_step_price", "get_tx_result",
     "get_max_step_limit", "is_deployer", "is_in_score_black_list",
     "is_in_import_white_list"}

IsWriteOp ==
    last.cls \in {"GovernanceWriter", "GovernanceScore"} /\ last.op \notin QueryOps

\* The positions of last.events
Steps == 1..Len(last.events)

\* The handler did ev at some point
Did(ev) == \E i \in Steps : last.events[i].ev = ev

\* The calls a handler can make on the client
ClientCalls == {"estimate_step", "send_transaction"}

\* The owner wallet of the object the handler ran on
Owner == IF last.cls = "GovernanceWriter" THEN writer.owner ELSE score.owner

\* The handler raised by itself, before it built, signed or called anything
FailedEarly(exc) == last.outcome = exc /\ last.events = <<>>

\* The 13 names of the step types
FixedStepTypes ==
    {"default", "contractCall", "contractCreate", "contractUpdate",
     "contractDestruct", "contractSet", "get", "set", "replace", "delete",
     "input", "eventlog", "apiCall"}

-----------------------------------------------------------------------------
(* C1: set_step_cost of GovernanceWriter and of GovernanceScore raises       *)
(* ValueError for a step_type outside the 13 fixed names, having built no    *)
(* transaction, signed nothing and called nothing on the client; for a       *)
(* step_type among the 13 names it goes on to a client call.                 *)
C1_StepTypeValidated ==
    (IsWriteOp /\ last.op = "set_step_cost") =>
        IF last.args.step_type \notin FixedStepTypes
        THEN FailedEarly("ValueError")
        ELSE \E i \in Steps : last.events[i].ev \in ClientCalls

C1_Witness ==
    /\ last.cls = "GovernanceScore"
    /\ last.op = "set_step_cost"
    /\ last.args.step_type = "storage"
    /\ last.outcome = "ValueError"

(* C2: set_max_step_limit of GovernanceWriter and of GovernanceScore raises  *)
(* ValueError for a context_type other than "invoke" and "query", whatever   *)
(* the value, before a transaction is built and without a client call.       *)
C2_ContextTypeValidated ==
    (/\ IsWriteOp
     /\ last.op = "set_max_step_limit"
     /\ last.args.context_type \notin {"invoke", "query"})
        => FailedEarly("ValueError")

C2_Witness ==
    /\ last.cls = "GovernanceWriter"
    /\ last.op = "set_max_step_limit"
    /\ last.args.context_type = "Invoke"
    /\ last.args.value = MaxInt
    /\ last.outcome = "ValueError"

(* C3: in estimate mode no write operation signs: when the effective         *)
(* estimate flag is true, nothing the operation does is a signing and no     *)
(* transaction it handles carries a signature.                               *)
C3_EstimateNeverSigns ==
    (IsWriteOp /\ last.estimate) =>
        \A i \in Steps :
            /\ last.events[i].ev # "sign"
            /\ last.events[i].tx # None => last.events[i].tx[1].signature = None

C3_Witness ==
    /\ IsWriteOp
    /\ last.estimate
    /\ last.outcome = "return"
    /\ \E i \in Steps : last.events[i].ev \in ClientCalls

C5_SignedBeforeSubmitted ==
    (IsWriteOp /\ ~last.estimate /\ last.outcome \in {"return", "ClientError"}) =>
        \E b, i, j \in Steps :
            /\ b < i /\ i < j
            /\ last.events[b].ev = "build"
            /\ last.events[i].ev = "sign"
            /\ last.events[i].tx = Some(Sign(last.events[b].tx[1], Owner.private_key))
            /\ last.events[j].ev = "send_transaction"
            /\ last.events[j].tx = last.events[i].tx
            /\ \A k \in 1..i : last.events[k].ev \notin ClientCalls
            /\ last.ret = last.events[j].val

C5_Witness ==
    /\ IsWriteOp
    /\ ~last.estimate
    /\ Did("sign")
    /\ last.outcome = "return"
    /\ last.ret[1].type = "bytes"

(* C6, as claimed: every transaction a write operation builds carries the    *)
(* owner's address as sender, and carries a step limit if and only if the    *)
(* effective estimate flag is false.                                         *)
C6_StepLimitIffNotEstimating ==
    IsWriteOp =>
        \A i \in Steps :
            last.events[i].tx # None =>
                /\ last.events[i].tx[1].from = Owner.address
                /\ (last.events[i].tx[1].step_limit # None) <=> ~last.estimate

(* C7, as claimed: on a writer built by create_writer_by_args with yes=false *)
(* an operation that signs or calls the client has invoked the registered    *)
(* confirmation callback before.                                             *)
C7_ConfirmedBeforeSigned ==
    (/\ last.cls = "GovernanceWriter"
     /\ writer.on_send_request = Some([func |-> "_confirm_callback", yes |-> FALSE])
     /\ \E j \in Steps : last.events[j].ev \in ClientCalls \cup {"sign"})
        => \E i \in Steps :
              /\ last.events[i].ev = "on_send_request"
              /\ \A j \in Steps :
                    last.events[j].ev \in ClientCalls \cup {"sign"} => i < j

(* C8: _confirm_callback with yes=True returns True and reads nothing from   *)
(* the terminal; with yes=False it reads exactly one line and returns False  *)
(* if and only if the line is "n".  ClaimIScoreCommand._run passes, as the   *)
(* first request hook, confirm_transaction bound to args.yes, and            *)
(* print_request after it.                                                   *)
C8_YesSkipsPrompt ==
    /\ (last.cls = "governance" /\ last.op = "_confirm_callback") =>
          LET reads == Cardinality({i \in Steps : last.events[i].ev = "input"})
          IN  IF last.args.yes
              THEN last.ret = Some([type |-> "bool", v |-> TRUE]) /\ reads = 0
              ELSE /\ reads = 1
                   /\ (last.ret[1].v = FALSE) <=> (last.args.line = "n")
    /\ (last.cls = "ClaimIScoreCommand" /\ last.op = "_run") =>
          /\ Len(last.args.hooks.request) = 2
          /\ last.args.hooks.request[1] =
                [func |-> "confirm_transaction", yes |-> Some(last.args.args.yes)]
          /\ last.args.hooks.request[2].func = "print_request"

C8_Witness ==
    /\ last.cls = "governance"
    /\ last.op = "_confirm_callback"
    /\ last.args.yes
    /\ last.args.line = "n"
    /\ last.ret = Some([type |-> "bool", v |-> TRUE])

(* C9: GovernanceWriter.update and GovernanceScore.deploy, given a score     *)
(* path whose directory holds no package.json file, raise before a           *)
(* transaction is built, signed or handed to the client, in estimate mode    *)
(* and otherwise.                                                            *)
C9_MissingManifestIsFatal ==
    (/\ IsWriteOp
     /\ last.op \in {"update", "deploy"}
     /\ (last.args.path \o "/package.json") \notin fs)
        => FailedEarly("Exception")

C9_Witness ==
    /\ last.cls = "GovernanceWriter"
    /\ last.op = "update"
    /\ last.args.path = "gov"
    /\ fs = {}
    /\ last.outcome = "Exception"

(* C10, as claimed: the setStake command, given a negative stake, fails and  *)
(* does not reach score.set_stake.                                           *)
C10_NegativeStakeRejected ==
    (last.cls = "SetStakeCommand" /\ last.op = "_run" /\ last.args.args.stake < 0) =>
        /\ last.outcome \notin {"return", "ClientError"}
        /\ ~Did("set_stake")

(* C11, as claimed: get_step_price, get_max_step_limit, is_deployer,        *)
(* is_in_score_black_list and is_in_import_white_list fail on a response     *)
(* text that does not start with "0x", and on "0x" followed by hex digits    *)
(* return the integer it denotes (its non-zero test for the boolean ones).   *)
DecodingOps ==
    {"get_step_price", "get_max_step_limit", "is_deployer",
     "is_in_score_black_list", "is_in_import_white_list"}

Decoded(n) ==
    IF last.op \in {"get_step_price", "get_max_step_limit"}
    THEN [type |-> "int", v |-> n]
    ELSE [type |-> "bool", v |-> n # 0]

C11_PrefixRequired ==
    (last.cls \in {"GovernanceReader", "GovernanceScore"} /\ last.op \in DecodingOps) =>
        \A i \in Steps :
            (last.events[i].ev = "call" /\ last.events[i].val # None) =>
                LET text == last.events[i].val[1].v
                IN  IF Len(text) >= 2 /\ text[1] = "0" /\ text[2] = "x"
                    THEN (Len(text) >= 3 /\ \A k \in 3..Len(text) : IsDigit(text[k], 16))
                            => /\ last.outcome = "return"
                               /\ last.ret = Some(Decoded(ToInt(SubSeq(text, 3, Len(text)), 16)))
                    ELSE last.outcome = "ValueError"

(* C12, as claimed: create_reader_by_args, given a negative args.nid and a   *)
(* url for which get_predefined_nid is negative too, fails and builds no     *)
(* reader.                                                                   *)
C12_MissingNidRejected ==
    (/\ last.op = "create_reader_by_args"
     /\ last.args.nid < 0
     /\ get_predefined_nid(last.args.url) < 0)
        => /\ last.outcome = "ValueError"
           /\ last.ret = None

(* C15: an operation of GovernanceReader, GovernanceWriter or                *)
(* GovernanceScore sends at most one request to the client, and when the     *)
(* request fails the operation ends there with the client's error and        *)
(* returns nothing.                                                          *)
Requests == {"call", "estimate_step", "send_transaction", "get_transaction_result"}

C15_NoRetries ==
    (last.cls \in {"GovernanceReader", "GovernanceWriter", "GovernanceScore"}) =>
        /\ Cardinality({i \in Steps : last.events[i].ev \in Requests}) <= 1
        /\ \A i \in Steps :
              (last.events[i].ev \in Requests /\ last.events[i].val = None) =>
                  /\ i = Len(last.events)
                  /\ last.outcome = "ClientError"
                  /\ last.ret = None

C15_Witness ==
    /\ last.cls = "GovernanceWriter"
    /\ last.op = "set_revision"
    /\ last.estimate
    /\ Did("estimate_step")
    /\ last.outcome = "ClientError"

(* C16: a query of GovernanceReader calls on_send_request exactly once, with *)
(* the payload it built, and calls client.call after that; on a reader whose *)
(* callback was never set the query fails before any request to the client;  *)
(* get_tx_result never calls the callback.                                   *)
C16_CallbackBeforeCall ==
    last.cls = "GovernanceReader" =>
        IF last.op = "get_tx_result"
        THEN ~Did("on_send_request") /\ Did("get_transaction_result")
        ELSE IF reader.on_send_request = None
        THEN /\ last.outcome = "TypeError"
             /\ \A i \in Steps : last.events[i].ev \notin Requests
        ELSE /\ Cardinality({i \in Steps : last.events[i].ev = "on_send_request"}) = 1
             /\ \E b, i, j \in Steps :
                   /\ b < i /\ i < j
                   /\ last.events[b].ev = "build"
                   /\ last.events[i].ev = "on_send_request"
                   /\ last.events[i].tx = last.events[b].tx
                   /\ last.events[j].ev = "call"
                   /\ last.events[j].tx = last.events[b].tx
                   /\ \A k \in 1..i : last.events[k].ev \notin Requests

C16_Witness ==
    /\ last.cls = "GovernanceReader"
    /\ last.op = "get_step_price"
    /\ reader.on_send_request = None
    /\ last.outcome = "TypeError"

\* The query methods of SystemScore the read commands call
Getters ==
    {"get_stake", "get_prep", "get_preps", "get_main_preps", "get_sub_preps",
     "get_prep_stats", "get_delegation", "query_iscore"}

\* A read command has run
ReadCommandRan == last.cls \in CommandClasses /\ last.op = "_run" /\ Command_readonly(last.cls)

\* The namespace names an address or a keystore, or the command needs neither
AddressKnown ==
    ("address" \in DOMAIN last.args.args) =>
        (last.args.args.address # None \/ last.args.args.keystore # None)

\* C13: a read command builds a score without wallet, step limit or estimate
\* flag, performs exactly one query call and nothing that signs or sends, and
\* returns exit code 0 when the call and the decoding of its answer succeed.
C13_ReadCommandsOnlyRead ==
    ReadCommandRan =>
        /\ \A i \in Steps : last.events[i].ev \in Getters
        /\ Len(last.events) <= 1
        /\ (last.args.score = None) => (last.events = <<>>)
        /\ AddressKnown =>
              /\ last.args.score = Some(SystemScore(None, 0, 0, FALSE))
              /\ Len(last.events) = 1
              /\ (last.events[1].val # None /\ last.args.decode_ok) =>
                    /\ last.outcome = "return"
                    /\ last.ret = Some([type |-> "int", v |-> 0])
        /\ last.outcome = "return" =>
              /\ Len(last.events) = 1
              /\ last.events[1].val # None
              /\ last.ret = Some([type |-> "int", v |-> 0])

C13_Witness ==
    /\ ReadCommandRan
    /\ last.cls = "StakeCommand"
    /\ last.args.args.address = None
    /\ last.args.args.keystore # None
    /\ last.events # <<>>
    /\ last.events[1].ev = "get_stake"
    /\ last.outcome = "return"
    /\ last.ret = Some([type |-> "int", v |-> 0])

\* A write command has run on a namespace of the parser its own init builds
OwnParserRun ==
    /\ last.cls \in CommandClasses
    /\ last.op = "_run"
    /\ ~Command_readonly(last.cls)
    /\ DOMAIN last.args.args = Command_init(last.cls)

\* C14: the namespace a write command's own parser produces carries the step
\* limit and the estimate flag the score for invoke is built from, so _run
\* does not fail reading them.
C14_WriteCommandsHaveInvokeArgs ==
    OwnParserRun =>
        /\ {"step_limit", "estimate"} \subseteq DOMAIN last.args.args
        /\ last.outcome # "AttributeError"

\* C18: no other command class registers the name a command class registers.
C18_NamesUnique ==
    (last.cls \in CommandClasses /\ last.op = "__init__") =>
        \A c \in CommandClasses \ {last.cls} : Command_name(c) # last.args.name

\* What GovernanceWriter does for the arguments a of GovernanceScore's
\* operation op (update is the writer's name for deploy)
WriterDoes(op, a, env) ==
    CASE op = "deploy" -> Writer_update_result(writer, a.path, env)
      [] op = "set_step_cost" ->
            Writer_set_step_cost_result(writer, a.step_type, a.cost, env)
      [] op = "set_max_step_limit" ->
            Writer_set_max_step_limit_result(writer, a.context_type, a.value, env)
      [] OTHER -> Writer_result(writer, op, a, env)

\* What a run asked the node to do: nothing when the arguments were rejected,
\* else the kind and the data (method and parameters, or the path handed to
\* the deploy builder) of the transaction it built
Asked(r) ==
    IF r.events = <<>>
    THEN [rejected |-> TRUE, kind |-> "", data |-> None]
    ELSE [rejected |-> FALSE, kind |-> r.events[1].tx[1].kind,
          data |-> Some(r.events[1].tx[1].data)]

\* C17: for the same arguments GovernanceScore and GovernanceWriter either both
\* reject or both build a transaction with the same method and parameters,
\* and deploy and update hand the same path to the deploy builder.
C17_SameRequest ==
    (last.cls = "GovernanceScore" /\ IsWriteOp) =>
        \A env \in ClientEnv :
            Asked(last) = Asked(WriterDoes(last.op, last.args, env))

\* The part of C17 about the call operations alone
C17_SameCalls ==
    (last.cls = "GovernanceScore" /\ IsWriteOp /\ last.op # "deploy") =>
        \A env \in ClientEnv :
            Asked(last) = Asked(WriterDoes(last.op, last.args, env))

====
